---- MODULE Spec2Model ----
(***************************************************************************)
(* Model of script.py: the request validator parse_xml, the price          *)
(* calculator calculate_price and the response builder generate_response.  *)
(*                                                                         *)
(* Representation.                                                         *)
(*  - A document is a record with one entry per path the code reads.  A    *)
(*    text node is [present, text]; findtext returns None exactly when     *)
(*    present is FALSE.  The Parameter node is [present, attrib].          *)
(*  - Texts the code parses (timeout, quota, dates) are tuples of          *)
(*    one-character strings, so that str.isdigit, int() and strptime are   *)
(*    computed character by character.  Texts the code only tests for set  *)
(*    membership (language, currency, nationality) are plain strings.      *)
(*  - Dates are proleptic Gregorian ordinals, as datetime.toordinal.       *)
(*  - Money is fixed point: prices in cents, markup in tenths of a         *)
(*    percent, exchange rates in hundredths.                               *)
(***************************************************************************)
EXTENDS Integers, Sequences, FiniteSets, TLC

VARIABLES doc, today, pc, parsed_data, error, response, args, quote

vars == <<doc, today, pc, parsed_data, error, response, args, quote>>

(***************************************************************************)
(* Module-level configuration, script.py lines 7-25.                       *)
(***************************************************************************)
VALID_LANGUAGES == {"en", "fr", "de", "es"}
VALID_CURRENCIES == {"EUR", "USD", "GBP"}
VALID_NATIONALITIES == {"US", "GB", "CA"}

DEFAULT_LANGUAGE == "en"
DEFAULT_CURRENCY == "EUR"
DEFAULT_NATIONALITY == "US"
DEFAULT_OPTIONS_QUOTA == 20
MAX_OPTIONS_QUOTA == 50

\* Rates in hundredths: 110 is 1.1, 100 is 1.0.
EXCHANGE_RATES ==
    [c \in {"EUR", "USD", "GBP"} |->
        CASE c = "EUR" -> [r \in {"USD", "GBP", "EUR"} |->
                              CASE r = "USD" -> 110 [] r = "GBP" -> 85 [] r = "EUR" -> 100]
          [] c = "USD" -> [r \in {"EUR", "GBP", "USD"} |->
                              CASE r = "EUR" -> 91 [] r = "GBP" -> 78 [] r = "USD" -> 100]
          [] c = "GBP" -> [r \in {"EUR", "USD", "GBP"} |->
                              CASE r = "EUR" -> 118 [] r = "USD" -> 128 [] r = "GBP" -> 100]]

\* The value Python's None stands for in a variable that otherwise holds a record.
None == [tag |-> "None"]

(***************************************************************************)
(* Text primitives.                                                        *)
(***************************************************************************)
Digits == {"0", "1", "2", "3", "4", "5", "6", "7", "8", "9"}

DigitValue(c) ==
    CASE c = "0" -> 0 [] c = "1" -> 1 [] c = "2" -> 2 [] c = "3" -> 3 [] c = "4" -> 4
      [] c = "5" -> 5 [] c = "6" -> 6 [] c = "7" -> 7 [] c = "8" -> 8 [] c = "9" -> 9

\* str.isdigit: non-empty and every character a digit.
isdigit(s) == Len(s) > 0 /\ \A i \in 1..Len(s) : s[i] \in Digits

\* The value of a digit string, most significant digit first.
RECURSIVE DecimalValue(_)
DecimalValue(s) ==
    IF Len(s) = 0 THEN 0
    ELSE 10 * DecimalValue(SubSeq(s, 1, Len(s) - 1)) + DigitValue(s[Len(s)])

\* int(x) of a text: an optional sign and then digits; anything else raises
\* ValueError.  (Surrounding blanks and "_" separators, which int() also
\* accepts, are outside the alphabet of the texts enumerated here.)
int_str(s) ==
    LET signed == Len(s) > 0 /\ s[1] \in {"+", "-"}
        body   == IF signed THEN Tail(s) ELSE s
    IN  IF ~isdigit(body) THEN [raised |-> TRUE, value |-> 0]
        ELSE [raised |-> FALSE,
              value  |-> IF signed /\ s[1] = "-" THEN 0 - DecimalValue(body)
                         ELSE DecimalValue(body)]

min(a, b) == IF a <= b THEN a ELSE b

(***************************************************************************)
(* datetime: ordinals and strptime with the format "%d/%m/%Y".             *)
(***************************************************************************)
is_leap(y) == y % 4 = 0 /\ (y % 100 # 0 \/ y % 400 = 0)

days_in_month(y, m) ==
    IF m = 2 THEN (IF is_leap(y) THEN 29 ELSE 28)
    ELSE IF m \in {4, 6, 9, 11} THEN 30 ELSE 31

days_before_year(y) ==
    (y - 1) * 365 + ((y - 1) \div 4) - ((y - 1) \div 100) + ((y - 1) \div 400)

RECURSIVE days_before_month(_, _)
days_before_month(y, m) ==
    IF m = 1 THEN 0 ELSE days_before_month(y, m - 1) + days_in_month(y, m - 1)

\* datetime.toordinal of the date y-m-d (time of day is midnight throughout).
toordinal(y, m, d) == days_before_year(y) + days_before_month(y, m) + d

\* Position of the first "/" of s, 0 when there is none.
FirstSlash(s) ==
    IF \E i \in 1..Len(s) : s[i] = "/"
    THEN CHOOSE i \in 1..Len(s) : s[i] = "/" /\ \A j \in 1..(i - 1) : s[j] # "/"
    ELSE 0

\* A field matched by %d (bound 31) or %m (bound 12): one or two digits
\* whose value lies in 1..bound.
NumField(f, bound) ==
    /\ Len(f) \in {1, 2}
    /\ isdigit(f)
    /\ DecimalValue(f) \in 1..bound

\* datetime.strptime(s, "%d/%m/%Y"): the ordinal of the date, or ValueError
\* with one of strptime's three messages.
strptime(s) ==
    LET p1 == FirstSlash(s)
        D  == SubSeq(s, 1, p1 - 1)
        r1 == SubSeq(s, p1 + 1, Len(s))
        p2 == FirstSlash(r1)
        M  == SubSeq(r1, 1, p2 - 1)
        r2 == SubSeq(r1, p2 + 1, Len(r1))
        Y  == SubSeq(r2, 1, 4)
        matches == /\ p1 > 0 /\ NumField(D, 31)
                   /\ p2 > 0 /\ NumField(M, 12)
                   /\ Len(r2) >= 4 /\ isdigit(Y)
        y == DecimalValue(Y)
        m == DecimalValue(M)
        d == DecimalValue(D)
    IN  IF ~matches
        THEN [raised |-> TRUE, msg |-> "time data does not match format", ordinal |-> 0]
        ELSE IF Len(r2) > 4
        THEN [raised |-> TRUE, msg |-> "unconverted data remains", ordinal |-> 0]
        ELSE IF y < 1
        THEN [raised |-> TRUE, msg |-> "year is out of range", ordinal |-> 0]
        ELSE IF d > days_in_month(y, m)
        THEN [raised |-> TRUE, msg |-> "day is out of range for month", ordinal |-> 0]
        ELSE [raised |-> FALSE, msg |-> "", ordinal |-> toordinal(y, m, d)]

(***************************************************************************)
(* Documents.                                                              *)
(***************************************************************************)
Text(t) == [present |-> TRUE, text |-> t]
AbsentChars == [present |-> FALSE, text |-> <<>>]
AbsentString == [present |-> FALSE, text |-> ""]
Node(a) == [present |-> TRUE, attrib |-> a]
AbsentNode == [present |-> FALSE, attrib |-> {}]

\* root.findtext(path): None is modelled by present = FALSE.
findtext(document, path) == document[path]

\* root.findtext(path, default).
findtext_default(document, path, default) ==
    IF document[path].present THEN document[path].text ELSE default

(***************************************************************************)
(* parse_xml, one operator per check, in the order of the code.            *)
(***************************************************************************)
Raise(m, f) == [raised |-> TRUE, error |-> [msg |-> m, field |-> f], value |-> None]
Return(v) == [raised |-> FALSE, error |-> None, value |-> v]

MSG_TIMEOUT == "Invalid or missing timeoutMilliseconds (should be at least 1000ms)"
MSG_FIELD == "Missing required field"
MSG_INT == "invalid literal for int() with base 10"
MSG_PARAMS == "Missing required parameters: password, username, or CompanyID"
MSG_LEAD == "StartDate must be at least 2 days after today."
MSG_STAY == "Stay duration must be at least 3 nights."
MSG_CONVERSION == "Invalid currency conversion"

\* Line 47: the condition under which the timeout check raises.
timeout_invalid(document) ==
    LET timeout_str == findtext(document, "timeoutMilliseconds")
    IN  \/ ~timeout_str.present
        \/ ~isdigit(timeout_str.text)
        \/ DecimalValue(timeout_str.text) < 1000

required_fields == <<"SearchType", "StartDate", "EndDate", "Currency", "Nationality">>

\* Lines 51-53: the first required field whose findtext is None, "" if none.
missing_field(document) ==
    LET missing == {i \in 1..Len(required_fields) :
                        ~findtext(document, required_fields[i]).present}
    IN  IF missing = {} THEN ""
        ELSE required_fields[CHOOSE i \in missing : \A j \in missing : i <= j]

\* Lines 55-57.
language_of(document) ==
    LET language == findtext_default(document, "languageCode", DEFAULT_LANGUAGE)
    IN  IF language \notin VALID_LANGUAGES THEN DEFAULT_LANGUAGE ELSE language

\* Line 59: int(findtext(".//optionsQuota", DEFAULT_OPTIONS_QUOTA)); int of the
\* integer default is the default itself.
options_quota_int(document) ==
    IF findtext(document, "optionsQuota").present
    THEN int_str(findtext(document, "optionsQuota").text)
    ELSE [raised |-> FALSE, value |-> DEFAULT_OPTIONS_QUOTA]

\* Line 60.
options_quota_clamp(options_quota) == min(options_quota, MAX_OPTIONS_QUOTA)

\* Mutant of credentials_missing: any() in place of all(), so one attribute suffices.
credentials_missing_any(document) ==
    \/ ~document["Parameter"].present
    \/ ~(\E attr \in {"password", "username", "CompanyID"} : attr \in document["Parameter"].attrib)

\* Line 63: the condition under which the credentials check raises.
credentials_missing(document) ==
    LET param_node == document["Parameter"]
    IN  \/ ~param_node.present
        \/ ~(\A attr \in {"password", "username", "CompanyID"} : attr \in param_node.attrib)

\* Mutant of lead_time_violated: <= in place of <.
lead_time_violated_inclusive(start_date, now) == start_date <= now + 2

\* Line 72: start_date < today + timedelta(days=2).
lead_time_violated(start_date, now) == start_date < now + 2

\* Mutant of stay_violated: <= in place of <.
stay_violated_inclusive(start_date, end_date) == end_date - start_date <= 3

\* Line 74: (end_date - start_date).days < 3.
stay_violated(start_date, end_date) == end_date - start_date < 3

\* Mutant of currency_of: the membership test dropped.
currency_of_unchecked(document) == findtext_default(document, "Currency", DEFAULT_CURRENCY)

\* Lines 77-79.
currency_of(document) ==
    LET currency == findtext_default(document, "Currency", DEFAULT_CURRENCY)
    IN  IF currency \notin VALID_CURRENCIES THEN DEFAULT_CURRENCY ELSE currency

\* Mutant of nationality_of: an invalid value is kept, only an absent one defaulted.
nationality_of_unchecked(document) ==
    findtext_default(document, "Nationality", DEFAULT_NATIONALITY)

\* Lines 81-83.
nationality_of(document) ==
    LET nationality == findtext_default(document, "Nationality", DEFAULT_NATIONALITY)
    IN  IF nationality \notin VALID_NATIONALITIES THEN DEFAULT_NATIONALITY ELSE nationality

\* Mutant of parse_xml: the credentials check made before the quota is read.
parse_xml_credentials_first(document, now) ==
    LET quota == options_quota_int(document)
        start == strptime(findtext(document, "StartDate").text)
        end   == strptime(findtext(document, "EndDate").text)
    IN  IF timeout_invalid(document) THEN Raise(MSG_TIMEOUT, "")
        ELSE IF missing_field(document) # "" THEN Raise(MSG_FIELD, missing_field(document))
        ELSE IF credentials_missing(document) THEN Raise(MSG_PARAMS, "")
        ELSE IF quota.raised THEN Raise(MSG_INT, "")
        ELSE IF start.raised THEN Raise(start.msg, "")
        ELSE IF end.raised THEN Raise(end.msg, "")
        ELSE IF lead_time_violated(start.ordinal, now) THEN Raise(MSG_LEAD, "")
        ELSE IF stay_violated(start.ordinal, end.ordinal) THEN Raise(MSG_STAY, "")
        ELSE Return([language      |-> language_of(document),
                     options_quota |-> options_quota_clamp(quota.value),
                     currency      |-> currency_of(document),
                     nationality   |-> nationality_of(document),
                     start_date    |-> start.ordinal,
                     end_date      |-> end.ordinal])

\* Lines 42-92.  now is the ordinal of datetime.today() truncated to midnight.
parse_xml(document, now) ==
    LET quota == options_quota_int(document)
        start == strptime(findtext(document, "StartDate").text)
        end   == strptime(findtext(document, "EndDate").text)
    IN  IF timeout_invalid(document) THEN Raise(MSG_TIMEOUT, "")
        ELSE IF missing_field(document) # "" THEN Raise(MSG_FIELD, missing_field(document))
        ELSE IF quota.raised THEN Raise(MSG_INT, "")
        ELSE IF credentials_missing(document) THEN Raise(MSG_PARAMS, "")
        ELSE IF start.raised THEN Raise(start.msg, "")
        ELSE IF end.raised THEN Raise(end.msg, "")
        ELSE IF lead_time_violated(start.ordinal, now) THEN Raise(MSG_LEAD, "")
        ELSE IF stay_violated(start.ordinal, end.ordinal) THEN Raise(MSG_STAY, "")
        ELSE Return([language      |-> language_of(document),
                     options_quota |-> options_quota_clamp(quota.value),
                     currency      |-> currency_of(document),
                     nationality   |-> nationality_of(document),
                     start_date    |-> start.ordinal,
                     end_date      |-> end.ordinal])

(***************************************************************************)
(* calculate_price and generate_response.                                  *)
(***************************************************************************)
\* Mutant of round2: truncation to the cent below instead of rounding.
round2_truncating(num, den) == {num \div den}

\* round(x, 2) of x = num / den cents, den > 0, num >= 0, as the set of
\* results the float computation can give.  Away from a tie it is the nearest
\* cent.  At an exact decimal tie the binary float lies on either side of the
\* tie, depending on its representation error, so both neighbours are possible.
round2(num, den) ==
    LET q == num \div den
        r == num % den
    IN  IF 2 * r < den THEN {q}
        ELSE IF 2 * r > den THEN {q + 1}
        ELSE {q, q + 1}

\* Mutant of calculate_price: a same-currency request short-circuits to rate 1.0
\* without consulting the table.
calculate_price_shortcut(net_price, request_currency, response_currency, markup) ==
    IF request_currency = response_currency
    THEN {[raised |-> FALSE,
           error  |-> None,
           value  |-> [selling_price    |-> selling_price,
                       markup           |-> markup,
                       exchange_rate    |-> 100,
                       selling_currency |-> request_currency]] :
            selling_price \in round2(net_price * (1000 + markup) * 100, 100000)}
    ELSE IF \/ response_currency \notin DOMAIN EXCHANGE_RATES
            \/ request_currency \notin DOMAIN EXCHANGE_RATES[response_currency]
    THEN {[raised |-> TRUE,
           error  |-> [msg |-> MSG_CONVERSION, field |-> ""],
           value  |-> None]}
    ELSE {[raised |-> FALSE,
           error  |-> None,
           value  |-> [selling_price    |-> selling_price,
                       markup           |-> markup,
                       exchange_rate    |-> EXCHANGE_RATES[response_currency][request_currency],
                       selling_currency |-> request_currency]] :
            selling_price \in
                round2(net_price * (1000 + markup)
                           * EXCHANGE_RATES[response_currency][request_currency], 100000)}

\* Lines 27-40.  net_price in cents, markup in tenths of a percent; the
\* set of possible outcomes (one, except at a rounding tie).
calculate_price(net_price, request_currency, response_currency, markup) ==
    IF \/ response_currency \notin DOMAIN EXCHANGE_RATES
       \/ request_currency \notin DOMAIN EXCHANGE_RATES[response_currency]
    THEN {[raised |-> TRUE,
           error  |-> [msg |-> MSG_CONVERSION, field |-> ""],
           value  |-> None]}
    ELSE LET exchange_rate == EXCHANGE_RATES[response_currency][request_currency]
         IN  {[raised |-> FALSE,
               error  |-> None,
               value  |-> [selling_price    |-> selling_price,
                           markup           |-> markup,
                           exchange_rate    |-> exchange_rate,
                           selling_currency |-> request_currency]] :
                selling_price \in
                    round2(net_price * (1000 + markup) * exchange_rate, 100000)}

\* Lines 96-101: the offers and the markup generate_response works with.
hotels == <<[id |-> "A#1", hotelCodeSupplier |-> "39971881",
             price |-> [net |-> 13242, currency |-> "USD"]]>>
markup_percentage == 32

\* Lines 104-125 for one hotel: the possible outcomes of pricing it.
price_hotel(data, hotel) ==
    {IF selling_data.raised THEN selling_data
     ELSE Return([id |-> hotel.id,
                  hotelCodeSupplier |-> hotel.hotelCodeSupplier,
                  market |-> data.nationality,
                  price |-> [minimumSellingPrice |-> min_selling_price,
                             currency |-> hotel.price.currency,
                             net |-> hotel.price.net,
                             selling_price |-> selling_data.value.selling_price,
                             markup |-> selling_data.value.markup,
                             exchange_rate |-> selling_data.value.exchange_rate,
                             selling_currency |-> selling_data.value.selling_currency]]) :
        selling_data \in calculate_price(hotel.price.net, data.currency,
                                         hotel.price.currency, markup_percentage),
        min_selling_price \in round2(hotel.price.net * 105, 100)}

\* Lines 94-127: every hotel priced in order; the first failure propagates.
RECURSIVE generate_response(_, _)
generate_response(data, hs) ==
    IF hs = <<>> THEN {Return(<<>>)}
    ELSE UNION {IF h.raised THEN {h}
                ELSE {IF t.raised THEN t ELSE Return(<<h.value>> \o t.value) :
                        t \in generate_response(data, Tail(hs))} :
                h \in price_hotel(data, Head(hs))}

(***************************************************************************)
(* Inputs.                                                                 *)
(***************************************************************************)
\* Lines 130-148: the request the script is run on.
xml_request ==
    [timeoutMilliseconds |-> Text(<<"2", "5", "0", "0", "0">>),
     languageCode        |-> Text("en"),
     optionsQuota        |-> Text(<<"2", "0">>),
     Parameter           |-> Node({"password", "username", "CompanyID"}),
     SearchType          |-> Text("Multiple"),
     StartDate           |-> Text(<<"2", "0", "/", "0", "2", "/", "2", "0", "2", "5">>),
     EndDate             |-> Text(<<"2", "4", "/", "0", "2", "/", "2", "0", "2", "5">>),
     Currency            |-> Text("USD"),
     Nationality         |-> Text("US")]

Fields == DOMAIN xml_request

TimeoutTexts ==
    {<<>>, <<"0">>, <<"9", "9", "9">>, <<"1", "0", "0", "0">>, <<"0", "9", "9", "9">>,
     <<"-", "1", "0", "0", "0">>, <<"+", "5", "0", "0", "0">>, <<"1", "e", "3">>}

QuotaTexts ==
    {<<>>, <<"0">>, <<"1">>, <<"5", "0">>, <<"5", "1">>, <<"9", "9", "9">>,
     <<"-", "5">>, <<"-", "0">>, <<"+", "7">>, <<"a", "b">>, <<"1", "0", "x">>, <<"-">>}

DateTexts ==
    {<<"1", "7", "/", "0", "2", "/", "2", "0", "2", "5">>,
     <<"1", "8", "/", "0", "2", "/", "2", "0", "2", "5">>,
     <<"1", "9", "/", "0", "2", "/", "2", "0", "2", "5">>,
     <<"2", "0", "/", "0", "2", "/", "2", "0", "2", "5">>,
     <<"2", "1", "/", "0", "2", "/", "2", "0", "2", "5">>,
     <<"2", "2", "/", "0", "2", "/", "2", "0", "2", "5">>,
     <<"2", "3", "/", "0", "2", "/", "2", "0", "2", "5">>,
     <<"2", "4", "/", "0", "2", "/", "2", "0", "2", "5">>,
     <<"2", "8", "/", "2", "/", "2", "0", "2", "5">>,
     <<"1", "/", "3", "/", "2", "0", "2", "5">>,
     <<"0", "3", "/", "0", "3", "/", "2", "0", "2", "5">>,
     <<"2", "9", "/", "0", "2", "/", "2", "0", "2", "4">>,
     <<"2", "9", "/", "0", "2", "/", "2", "0", "2", "5">>,
     <<"2", "0", "2", "5", "-", "0", "2", "-", "2", "0">>,
     <<"2", "0", "/", "0", "2", "/", "2", "0", "2", "5", "0">>,
     <<"2", "0", "/", "1", "3", "/", "2", "0", "2", "5">>,
     <<"2", "0", "/", "0", "2", "/", "2", "5">>,
     <<>>}

\* The values a field can take besides the one the sample request gives it.
Alternatives(f) ==
    CASE f = "timeoutMilliseconds" -> {AbsentChars} \cup {Text(t) : t \in TimeoutTexts}
      [] f = "languageCode" -> {AbsentString} \cup {Text(t) : t \in {"", "fr", "de", "es", "it", "EN"}}
      [] f = "optionsQuota" -> {AbsentChars} \cup {Text(t) : t \in QuotaTexts}
      [] f = "Parameter" -> {AbsentNode} \cup
                            {Node(a) : a \in SUBSET {"password", "username", "CompanyID"}}
      [] f = "SearchType" -> {AbsentString, Text("")}
      [] f = "StartDate" -> {AbsentChars} \cup {Text(t) : t \in DateTexts}
      [] f = "EndDate" -> {AbsentChars} \cup {Text(t) : t \in DateTexts}
      [] f = "Currency" -> {AbsentString} \cup {Text(t) : t \in {"", "EUR", "GBP", "JPY", "usd"}}
      [] f = "Nationality" -> {AbsentString} \cup {Text(t) : t \in {"", "GB", "CA", "ES", "us"}}

\* The number of fields in which a document may differ from xml_request.
MaxEdits == 2

\* The values of field f in a document whose edited fields are S.
Choices(S, f) == IF f \in S THEN Alternatives(f) ELSE {xml_request[f]}

\* The documents that differ from xml_request in the fields S only.
EditedIn(S) ==
    [timeoutMilliseconds : Choices(S, "timeoutMilliseconds"),
     languageCode        : Choices(S, "languageCode"),
     optionsQuota        : Choices(S, "optionsQuota"),
     Parameter           : Choices(S, "Parameter"),
     SearchType          : Choices(S, "SearchType"),
     StartDate           : Choices(S, "StartDate"),
     EndDate             : Choices(S, "EndDate"),
     Currency            : Choices(S, "Currency"),
     Nationality         : Choices(S, "Nationality")]

EditSets == {S \in SUBSET Fields : Cardinality(S) <= MaxEdits}

Todays == {toordinal(2025, 2, 17), toordinal(2025, 2, 18)}

(***************************************************************************)
(* The script, lines 150-155: parse_xml, then generate_response; any       *)
(* exception ends the run with the error printed.                          *)
(***************************************************************************)
Init ==
    /\ \E S \in EditSets : doc \in EditedIn(S)
    /\ today \in Todays
    /\ pc = "start"
    /\ parsed_data = None
    /\ error = None
    /\ response = None
    /\ args = None
    /\ quote = None

ParseXml ==
    /\ pc = "start"
    /\ LET r == parse_xml(doc, today)
       IN  /\ pc' = IF r.raised THEN "error" ELSE "parsed"
           /\ parsed_data' = r.value
           /\ error' = r.error
    /\ UNCHANGED <<doc, today, response, args, quote>>

GenerateResponse ==
    /\ pc = "parsed"
    /\ \E r \in generate_response(parsed_data, hotels) :
           /\ pc' = IF r.raised THEN "error" ELSE "done"
           /\ response' = r.value
           /\ error' = r.error
    /\ UNCHANGED <<doc, today, parsed_data, args, quote>>

Next == ParseXml \/ GenerateResponse

Spec == Init /\ [][Next]_vars

(***************************************************************************)
(* calculate_price called on its own, with arguments drawn from small sets.*)
(***************************************************************************)
\* Net prices 0..MaxNet cents, and the two prices of the sample data.
MaxNet == 12

NetPrices == (0..MaxNet) \cup {150, 13242}
Markups == {0, 32, 125}
PriceCurrencies == {"EUR", "USD", "GBP", "JPY"}

InitPrice ==
    /\ doc = xml_request
    /\ today = toordinal(2025, 2, 17)
    /\ pc = "call"
    /\ parsed_data = None
    /\ error = None
    /\ response = None
    /\ args \in [net_price : NetPrices, request_currency : PriceCurrencies,
                 response_currency : PriceCurrencies, markup : Markups]
    /\ quote = None

CalculatePrice ==
    /\ pc = "call"
    /\ \E r \in calculate_price(args.net_price, args.request_currency,
                                args.response_currency, args.markup) :
           /\ pc' = IF r.raised THEN "raised" ELSE "returned"
           /\ quote' = r.value
           /\ error' = r.error
    /\ UNCHANGED <<doc, today, parsed_data, response, args>>

NextPrice == CalculatePrice

SpecPrice == InitPrice /\ [][NextPrice]_vars

(***************************************************************************)
(* Vocabulary of the properties.                                           *)
(***************************************************************************)
\* parse_xml has run and returned a normalized request.
ParseReturned == pc \in {"parsed", "done"}

\* parse_xml has run and raised.
ParseRaised == pc = "error" /\ parsed_data = None

ErrorIs(m) == pc = "error" /\ error.msg = m

DateFormatMessages ==
    {"time data does not match format", "unconverted data remains",
     "year is out of range", "day is out of range for month"}

StartParsed == strptime(doc.StartDate.text)
EndParsed == strptime(doc.EndDate.text)

\* Checks 1-4 pass: timeout, required fields, language (cannot fail), quota.
Checks1to4Pass ==
    /\ doc.timeoutMilliseconds.present
    /\ isdigit(doc.timeoutMilliseconds.text)
    /\ DecimalValue(doc.timeoutMilliseconds.text) >= 1000
    /\ \A i \in 1..Len(required_fields) : doc[required_fields[i]].present
    /\ (doc.optionsQuota.present => ~int_str(doc.optionsQuota.text).raised)

\* Checks 1-6 pass: the above, the credentials and both dates parse.
Checks1to6Pass ==
    /\ Checks1to4Pass
    /\ doc.Parameter.present
    /\ {"password", "username", "CompanyID"} \subseteq doc.Parameter.attrib
    /\ ~StartParsed.raised
    /\ ~EndParsed.raised

EnumFields == {"languageCode", "Currency", "Nationality"}

ValidSet(f) ==
    CASE f = "languageCode" -> {"en", "fr", "de", "es"}
      [] f = "Currency" -> {"EUR", "USD", "GBP"}
      [] f = "Nationality" -> {"US", "GB", "CA"}

DocumentedDefault(f) ==
    CASE f = "languageCode" -> "en" [] f = "Currency" -> "EUR" [] f = "Nationality" -> "US"

Normalized(f) ==
    CASE f = "languageCode" -> parsed_data.language
      [] f = "Currency" -> parsed_data.currency
      [] f = "Nationality" -> parsed_data.nationality

\* The value the claim gives field f of the normalized request.
ExpectedEnum(f) ==
    IF doc[f].present /\ doc[f].text \in ValidSet(f) THEN doc[f].text
    ELSE DocumentedDefault(f)

\* The failure reported is not due to field f: with f given a valid value
\* and nothing else changed, parse_xml reports the same failure.
NotCausedBy(f) ==
    parse_xml([doc EXCEPT ![f] = Text(DocumentedDefault(f))], today).error = error

\* C2 (as stated): each enum field of a returned request is the input when
\* valid and the default when invalid or absent, and an invalid or absent enum
\* input never causes a failure.
C2_EnumNeverFails ==
    /\ ParseReturned => \A f \in EnumFields : Normalized(f) = ExpectedEnum(f)
    /\ ParseRaised =>
          \A f \in EnumFields :
              (~doc[f].present \/ doc[f].text \notin ValidSet(f)) => NotCausedBy(f)

\* C2 (amended): each enum field of a returned request is the input when valid
\* and the default when invalid (the empty text included); an invalid value of
\* any of the three, and an absent languageCode, never cause a failure; an
\* absent Currency or Nationality node is a missing required field, and is
\* reported as such when the timeout is valid and no earlier required field is
\* missing.
C2_EnumNormalized ==
    /\ ParseReturned =>
          /\ \A f \in EnumFields : Normalized(f) = ExpectedEnum(f)
          /\ doc.Currency.present /\ doc.Nationality.present
    /\ ParseRaised =>
          \A f \in EnumFields :
              ((f = "languageCode" \/ doc[f].present) /\
               (~doc[f].present \/ doc[f].text \notin ValidSet(f))) => NotCausedBy(f)
    /\ (pc # "start" /\ ~timeout_invalid(doc) /\
        \A f \in {"SearchType", "StartDate", "EndDate"} : doc[f].present) =>
          /\ ~doc.Currency.present =>
                ErrorIs(MSG_FIELD) /\ error.field = "Currency"
          /\ (doc.Currency.present /\ ~doc.Nationality.present) =>
                ErrorIs(MSG_FIELD) /\ error.field = "Nationality"

\* A request with an invalid nationality and no language code has been
\* accepted with both defaults.
C2_Witness ==
    /\ ParseReturned
    /\ ~doc.languageCode.present /\ parsed_data.language = "en"
    /\ doc.Nationality.text = "ES" /\ parsed_data.nationality = "US"

(***************************************************************************)
(* C3.                                                                     *)
(***************************************************************************)
\* C3: whenever optionsQuota is a non-negative integer (0 included) or absent
\* and parse_xml returns, options_quota lies in 1..50, an input above 50 is
\* clamped to 50, and an absent input yields 20.
C3_QuotaInRange ==
    (ParseReturned /\ (~doc.optionsQuota.present \/ isdigit(doc.optionsQuota.text))) =>
        /\ parsed_data.options_quota \in 1..50
        /\ ~doc.optionsQuota.present => parsed_data.options_quota = 20
        /\ (doc.optionsQuota.present /\ DecimalValue(doc.optionsQuota.text) > 50) =>
              parsed_data.options_quota = 50

(***************************************************************************)
(* C4.                                                                     *)
(***************************************************************************)
SampleCall ==
    args = [net_price |-> 13242, request_currency |-> "USD",
            response_currency |-> "USD", markup |-> 32]

\* C4 (as stated): calculate_price(132.42, USD, USD, 3.2) returns exchange
\* rate 1.0 and selling price 136.62.
C4_SellingPrice13662 ==
    (SampleCall /\ pc # "call") =>
        /\ pc = "returned"
        /\ quote.exchange_rate = 100
        /\ quote.selling_price = 13662

\* C4 (amended): calculate_price(132.42, USD, USD, 3.2) returns exchange rate
\* 1.0 and selling price 136.66, which is 13242 * 1032 * 100 / 100000 =
\* 13665.744 cents rounded once to the cent.
C4_SellingPrice13666 ==
    (SampleCall /\ pc # "call") =>
        /\ pc = "returned"
        /\ quote.exchange_rate = 100
        /\ quote.selling_price = 13666
        /\ quote.selling_currency = "USD"

\* The sample call has returned.
C4_Witness == SampleCall /\ pc = "returned" /\ quote.markup = 32

(***************************************************************************)
(* C5.                                                                     *)
(***************************************************************************)
Rules == <<"timeout", "required", "quota", "credentials", "dateformat",
           "leadtime", "minstay">>

\* Rule r, taken on its own, is violated by the document.  The quota rule is
\* violated by the texts int() rejects; a date-window rule is violated only by
\* dates that parse.
Violates(r) ==
    CASE r = "timeout" ->
            ~(/\ doc.timeoutMilliseconds.present
              /\ isdigit(doc.timeoutMilliseconds.text)
              /\ DecimalValue(doc.timeoutMilliseconds.text) >= 1000)
      [] r = "required" ->
            \E f \in {"SearchType", "StartDate", "EndDate", "Currency", "Nationality"} :
                ~doc[f].present
      [] r = "quota" -> doc.optionsQuota.present /\ int_str(doc.optionsQuota.text).raised
      [] r = "credentials" ->
            ~doc.Parameter.present
            \/ ~({"password", "username", "CompanyID"} \subseteq doc.Parameter.attrib)
      [] r = "dateformat" ->
            \/ doc.StartDate.present /\ StartParsed.raised
            \/ doc.EndDate.present /\ EndParsed.raised
      [] r = "leadtime" ->
            /\ doc.StartDate.present /\ ~StartParsed.raised
            /\ StartParsed.ordinal < today + 2
      [] r = "minstay" ->
            /\ doc.StartDate.present /\ ~StartParsed.raised
            /\ doc.EndDate.present /\ ~EndParsed.raised
            /\ EndParsed.ordinal - StartParsed.ordinal < 3

Violated == {i \in 1..Len(Rules) : Violates(Rules[i])}

\* The rule a reported failure belongs to.
ReportedRule ==
    CASE error.msg = MSG_TIMEOUT -> "timeout"
      [] error.msg = MSG_FIELD -> "required"
      [] error.msg = MSG_INT -> "quota"
      [] error.msg = MSG_PARAMS -> "credentials"
      [] error.msg \in DateFormatMessages -> "dateformat"
      [] error.msg = MSG_LEAD -> "leadtime"
      [] error.msg = MSG_STAY -> "minstay"
      [] OTHER -> "other"

C6_BadQuotaRejected ==
    (pc # "start" /\ doc.optionsQuota.present /\
     (int_str(doc.optionsQuota.text).raised \/ int_str(doc.optionsQuota.text).value < 0)) =>
        ParseRaised

(***************************************************************************)
(* C7.                                                                     *)
(***************************************************************************)
CredentialsIncomplete ==
    \/ ~doc.Parameter.present
    \/ \E a \in {"password", "username", "CompanyID"} : a \notin doc.Parameter.attrib

\* C7: a document whose Parameter node is absent or lacks one of password,
\* username, CompanyID never yields a normalized request, and when checks 1-4
\* pass the failure reported is the missing-credentials error.
C7_MissingCredentialsFail ==
    (pc # "start" /\ CredentialsIncomplete) =>
        /\ ParseRaised
        /\ Checks1to4Pass => ErrorIs(MSG_PARAMS)

\* A Parameter node with two of the three attributes has been rejected.
C7_Witness ==
    /\ ErrorIs(MSG_PARAMS)
    /\ doc.Parameter.present
    /\ Cardinality(doc.Parameter.attrib) = 2

(***************************************************************************)
(* C8.                                                                     *)
(***************************************************************************)
TableKeys == {"EUR", "USD", "GBP"}

\* C8: calculate_price fails with the currency-conversion error exactly when
\* the quoted currency is not a key of the table or the requested currency is
\* not a key of its row, and then produces no quote.
C8_UnsupportedPairFails ==
    pc \in {"returned", "raised"} =>
        /\ pc = "raised" <=>
              (args.response_currency \notin TableKeys \/ args.request_currency \notin TableKeys)
        /\ pc = "raised" => quote = None /\ error.msg = MSG_CONVERSION
        /\ pc = "returned" => quote # None /\ error = None

\* A call whose quoted and requested currency are the same unsupported
\* currency has failed.
C8_Witness ==
    /\ pc = "raised"
    /\ args.response_currency = "JPY"
    /\ args.request_currency = "JPY"
    /\ quote = None

(***************************************************************************)
(* C9.                                                                     *)
(***************************************************************************)
\* C9: for every request that passes checks 1-6 and the lead-time rule,
\* parse_xml fails with the minimum-stay error if and only if endDate -
\* startDate is less than 3 days; exactly 3 nights passes, a shorter or
\* negative stay fails.
C9_MinimumStay ==
    (pc # "start" /\ Checks1to6Pass /\ StartParsed.ordinal >= today + 2) =>
        /\ ErrorIs(MSG_STAY) <=> EndParsed.ordinal - StartParsed.ordinal < 3
        /\ ~ErrorIs(MSG_STAY) => ParseReturned

\* A stay of exactly 3 nights has been accepted.
C9_Witness ==
    /\ ParseReturned
    /\ parsed_data.end_date - parsed_data.start_date = 3

(***************************************************************************)
(* C10.                                                                    *)
(***************************************************************************)
\* C10: once parse_xml has returned, pricing never fails on the currency
\* pair: calculate_price succeeds for the request's currency against every
\* quoted currency of the table, generate_response ends without an error,
\* and every quote's selling currency is the request's normalized currency.
C10_PricingNeverFails ==
    /\ ParseReturned =>
          \A q \in DOMAIN EXCHANGE_RATES :
             \A r \in calculate_price(hotels[1].price.net, parsed_data.currency,
                                      q, markup_percentage) :
                 ~r.raised /\ r.value.selling_currency = parsed_data.currency
    /\ pc = "error" => parsed_data = None
    /\ pc = "done" =>
          \A i \in 1..Len(response) :
              response[i].price.selling_currency = parsed_data.currency

\* A request with an unsupported currency has been priced in the default one.
C10_Witness ==
    /\ pc = "done"
    /\ doc.Currency.text = "JPY"
    /\ response[1].price.selling_currency = "EUR"
    /\ response[1].price.exchange_rate = 91

====
